---- MODULE Spec2Model ----
(***************************************************************************)
(* BudgetWise: the LangChain RAG service (backend/langchain_rag.py) and    *)
(* the request handlers of backend/app.py that drive it.  One shared       *)
(* BudgetWiseRAG instance holds the in-memory FAISS store; the index       *)
(* directory holds index.faiss, index.pkl and embedding_model.txt.         *)
(***************************************************************************)
EXTENDS Integers, Sequences, FiniteSets, Bags, TLC

\* ---------------------------------------------------------------- bounds
\* user ids are 1..MaxUser
MaxUser == 2
\* the expenses table hands out ids 1..MaxTx (AUTO_INCREMENT)
MaxTx == 2
\* at most MaxCopies index entries carry the same transaction id
MaxCopies == 2
\* top_k ranges over -1..MaxTopK
MaxTopK == 2

\* a table that already holds MaxRows rows of one user: one more than a
\* sub-batch of the retry pass of index_user_transactions
MaxRows == 11

\* the server answers up to MaxThreads requests at a time, one thread each
MaxThreads == 2

Users == 1..MaxUser
Threads == 1..MaxThreads
TxIds == 1..MaxTx
TopKs == (0 - 1)..MaxTopK

\* self.vector_store is None, and an index file that does not exist: no
\* entries at all (a store that exists always holds at least one entry)
None == <<>>
\* embedding_model.txt does not exist
NoFile == "<no file>"

\* ------------------------------------------------------- str() and int()
Digit == <<"0","1","2","3","4","5","6","7","8","9">>

RECURSIVE str(_)
\* str(n) of a non-negative integer: its decimal digits
str(n) == IF n < 10 THEN <<Digit[n + 1]>> ELSE str(n \div 10) \o <<Digit[(n % 10) + 1]>>

DigitValue(c) == CHOOSE v \in 0..9 : Digit[v + 1] = c

RECURSIVE int(_)
\* int(s) of a string of decimal digits
int(s) == IF Len(s) = 1 THEN DigitValue(s[1])
          ELSE 10 * int(SubSeq(s, 1, Len(s) - 1)) + DigitValue(s[Len(s)])

\* ------------------------------------------------------- relevance gate
Upper == <<"A","B","C","D","E","F","G","H","I","J","K","L","M",
           "N","O","P","Q","R","S","T","U","V","W","X","Y","Z">>
Lower == <<"a","b","c","d","e","f","g","h","i","j","k","l","m",
           "n","o","p","q","r","s","t","u","v","w","x","y","z">>

\* one character of str.lower()
LowerChar(c) == IF \E i \in 1..26 : Upper[i] = c
                THEN Lower[CHOOSE i \in 1..26 : Upper[i] = c]
                ELSE c

\* a gate that compares the query as it was typed
ToLower_none(q) == q

\* query.lower()
ToLower(q) == [i \in 1..Len(q) |-> LowerChar(q[i])]

\* Python's  k in q  on strings: k occurs in q as a substring
Contains(q, k) ==
    \E i \in 1..(Len(q) - Len(k) + 1) : SubSeq(q, i, i + Len(k) - 1) = k

keywords ==
    { <<"e","x","p","e","n","s","e">>, <<"e","x","p","e","n","s","e","s">>,
      <<"s","p","e","n","d">>, <<"s","p","e","n","t">>,
      <<"s","p","e","n","d","i","n","g">>, <<"i","n","c","o","m","e">>,
      <<"e","a","r","n">>, <<"e","a","r","n","e","d">>,
      <<"s","a","l","a","r","y">>, <<"w","a","g","e">>,
      <<"p","a","y","c","h","e","c","k">>, <<"b","u","d","g","e","t">>,
      <<"s","a","v","i","n","g","s">>, <<"s","a","v","e">>,
      <<"b","a","l","a","n","c","e">>, <<"t","r","a","n","s","a","c","t","i","o","n">>,
      <<"t","r","a","n","s","a","c","t","i","o","n","s">>, <<"c","a","t","e","g","o","r","y">>,
      <<"c","a","t","e","g","o","r","i","e","s">>, <<"r","e","n","t">>,
      <<"f","o","o","d">>, <<"g","r","o","c","e","r","y">>,
      <<"g","r","o","c","e","r","i","e","s">>, <<"e","n","t","e","r","t","a","i","n","m","e","n","t">>,
      <<"s","u","b","s","c","r","i","p","t","i","o","n">>, <<"s","u","b","s","c","r","i","p","t","i","o","n","s">>,
      <<"u","t","i","l","i","t","i","e","s">>, <<"e","l","e","c","t","r","i","c","i","t","y">>,
      <<"w","a","t","e","r">>, <<"g","a","s">>,
      <<"f","u","e","l">>, <<"t","r","a","n","s","p","o","r","t">>,
      <<"t","r","a","v","e","l">>, <<"r","e","s","t","a","u","r","a","n","t">>,
      <<"c","o","f","f","e","e">>, <<"b","i","l","l">>,
      <<"b","i","l","l","s">>, <<"d","u","e">>,
      <<"t","r","e","n","d">>, <<"a","v","e","r","a","g","e">>,
      <<"t","o","t","a","l">>, <<"s","u","m">>,
      <<"b","r","e","a","k","d","o","w","n">>, <<"i","n","s","i","g","h","t">>,
      <<"i","n","s","i","g","h","t","s">>, <<"f","o","r","e","c","a","s","t">>,
      <<"r","e","c","o","m","m","e","n","d","a","t","i","o","n">>, <<"r","e","c","o","m","m","e","n","d","a","t","i","o","n","s">>,
      <<"d","a","i","l","y">>, <<"w","e","e","k","l","y">>,
      <<"m","o","n","t","h","l","y">>, <<"y","e","a","r","l","y">>,
      <<"q","u","a","r","t","e","r">>, <<"j","a","n","u","a","r","y">>,
      <<"f","e","b","r","u","a","r","y">>, <<"m","a","r","c","h">>,
      <<"a","p","r","i","l">>, <<"m","a","y">>,
      <<"j","u","n","e">>, <<"j","u","l","y">>,
      <<"a","u","g","u","s","t">>, <<"s","e","p","t","e","m","b","e","r">>,
      <<"o","c","t","o","b","e","r">>, <<"n","o","v","e","m","b","e","r">>,
      <<"d","e","c","e","m","b","e","r">> }

money_markers ==
    { <<"$">>, <<"u","s","d">>,
      <<"d","o","l","l","a","r">>, <<"d","o","l","l","a","r","s">> }

phrases ==
    { <<"h","o","w"," ","m","u","c","h">>, <<"h","o","w"," ","m","a","n","y">>,
      <<"w","h","a","t"," ","i","s"," ","m","y">>, <<"s","h","o","w"," ","m","e">>,
      <<"c","o","m","p","a","r","e">>, <<"l","i","s","t"," ","m","y">>,
      <<"s","u","m"," ","o","f">>, <<"t","o","t","a","l"," ","o","f">>,
      <<"s","p","e","n","d","i","n","g"," ","o","n">>, <<"i","n","c","o","m","e"," ","f","r","o","m">> }

\* _is_query_relevant: an empty query is rejected, then the lower-cased
\* query is searched for a keyword, a money marker or a phrase
is_query_relevant(query) ==
    IF query = <<>> THEN FALSE
    ELSE LET q == ToLower(query)
         IN  \/ \E k \in keywords : Contains(q, k)
             \/ \E m \in money_markers : Contains(q, m)
             \/ \E p \in phrases : Contains(q, p)

\* sample queries
QEmpty == <<>>
QBlank == <<" "," ">>
\* "what is the capital of France"
QCapital == <<"w","h","a","t"," ","i","s"," ","t","h","e"," ","c","a","p","i","t","a","l"," ","o","f"," ","F","r","a","n","c","e">>
\* "How Many"
QHowMany == <<"H","o","w"," ","M","a","n","y">>
\* "$5"
QMoney == <<"$","5">>
\* "Food in August"
QFood == <<"F","o","o","d"," ","i","n"," ","A","u","g","u","s","t">>

\* the queries the gate is tried on
GateQueries == {QEmpty, QBlank, QCapital, QHowMany, QMoney, QFood}

\* the queries the handlers are driven with
Queries == {QEmpty, QBlank, QCapital, QFood}

\* the gate's verdict on every query, computed once
RelevantQueries == {q \in GateQueries : is_query_relevant(q)}


\* ------------------------------------------------------------- constants
\* config.EMBEDDING_MODEL is read from the environment at process start
Models == {"all-MiniLM-L6-v2", "embedding-001"}

OOC_MESSAGE == "I can only answer questions related to your expenses and financial insights."
NOT_INDEXED == "Your financial data hasn't been indexed yet. Please build the index first."
NO_MATCHES == "I couldn't find any relevant transactions to answer your question."
TROUBLE == "I had trouble analyzing your transactions. Please try again. Technical details: "
PIPELINE_ERROR == "An error occurred while processing your question."
\* what the language model may write: any text, the refusal included
GenTexts == {"generated answer", OOC_MESSAGE}

\* the texts of the exceptions a generation can raise: one shorter and one
\* longer than the part of it that is reported
GenErrors ==
    {"429 quota exceeded",
     "504 Deadline Exceeded: the request to the generation service timed out after 60 seconds; retry later or reduce the size of the prompt"}

\* str(e)[:100] keeps at most MaxDetail characters
MaxDetail == 100

\* a report that keeps the whole text of the exception
Truncate_none(e) == e

\* str(e)[:100]
Truncate(e) == IF Len(e) <= MaxDetail THEN e ELSE SubSeq(e, 1, MaxDetail)

\* the retry pass of index_user_transactions embeds 10 documents at a time
batch_size == 10

\* ------------------------------------------------------------------ state
VARIABLES
    expenses,         \* rows of the expenses table: [id, user_id]
    lastrowid,        \* the table's AUTO_INCREMENT counter
    vector_store,     \* rag_service.vector_store: None or a bag of metadata
    index_faiss,      \* VECTOR_STORE_DIR/index.faiss: None or the saved entries
    index_pkl,        \* VECTOR_STORE_DIR/index.pkl: None or the saved docstore
    embedding_id,     \* EMBEDDING_ID_FILE: NoFile or the text in it
    EMBEDDING_MODEL,  \* the active embedding model of this process
    last,             \* the last call: its arguments and what it returned
    threads           \* the request each server thread is serving, and where

vars == <<expenses, lastrowid, vector_store, index_faiss, index_pkl,
          embedding_id, EMBEDDING_MODEL, last, threads>>

\* ------------------------------------------------------------- documents
\* _create_metadata: id and user_id are stored stringified
create_metadata(tx) == [id |-> str(tx.id), user_id |-> str(tx.user_id)]

\* the metadata every row of the table can give
AllDocs == {create_metadata([id |-> i, user_id |-> u]) : i \in TxIds, u \in Users}

\* number of entries of a store (0 for an absent one)
Size(store) == BagCardinality(store)

\* the entries of a store whose metadata user_id is str(user_id)
EntriesOf(store, user_id) ==
    [d \in {e \in BagToSet(store) : e.user_id = str(user_id)} |-> store[d]]

\* FAISS.from_embeddings on an absent store, add_embeddings on a present one
AddEntries(store, docs) == IF store = None THEN docs ELSE store (+) docs

\* the SELECT of index_user_transactions: the rows of one user
RowsOf(user_id) == {tx \in expenses : tx.user_id = user_id}

\* rows ordered by id, as the table returns them
RECURSIVE SortedRows(_)
SortedRows(rows) ==
    IF rows = {} THEN <<>>
    ELSE LET first == CHOOSE tx \in rows : \A o \in rows : tx.id <= o.id
         IN  <<first>> \o SortedRows(rows \ {first})

\* the documents list of index_user_transactions, one per row
Documents(user_id) ==
    LET rows == SortedRows(RowsOf(user_id))
    IN  [i \in 1..Len(rows) |-> create_metadata(rows[i])]

RECURSIVE SeqToBag(_)
SeqToBag(s) == IF s = <<>> THEN EmptyBag
               ELSE SetToBag({s[1]}) (+) SeqToBag(Tail(s))

\* the store never holds more than MaxCopies entries for one document
WithinCopies(store) == \A d \in BagToSet(store) : store[d] <= MaxCopies

Min(a, b) == IF a < b THEN a ELSE b

\* ------------------------------------------------------------ persistence
\* vector_store.save_local writes index.faiss and index.pkl, or raises
SaveOutcomes == {"ok", "fail"}
\* the write of embedding_model.txt succeeds, or fails and leaves the file as
\* it was
FingerprintOutcomes == {"ok", "fail"}

\* a save_local that reports success without writing index.faiss
faiss_after_save_stale(store, save) == index_faiss
faiss_after_save(store, save) == IF save = "ok" THEN store ELSE index_faiss
pkl_after_save(store, save) == IF save = "ok" THEN store ELSE index_pkl

\* the try block after save_local: a failed write is logged, not raised
fingerprint_after_write(fp) == IF fp = "ok" THEN EMBEDDING_MODEL ELSE embedding_id

\* the record kept of the last call: the handler, its arguments and, for a
\* call that changes the index, how it ended (raised: in an exception; ret:
\* the count or the boolean returned).  What a query returns is a function of
\* its arguments and the state it leaves unchanged
\* (attempts: the embedding attempts of a build, 0 for the one-batch call and
\* b for sub-batch b of the retry pass, in the order they were made)
Call(op, user, reindex, query, top_k, matches, raised, ret) ==
    [op |-> op, user |-> user, reindex |-> reindex, query |-> query,
     top_k |-> top_k, matches |-> matches, raised |-> raised, ret |-> ret,
     attempts |-> <<>>]

\* -------------------------------------------------- index_user_transactions
\* the reindex step: the store is rebuilt from the other users' documents
\* (FAISS.from_documents embeds them again); any exception empties the store
rebuild_excluding(store, user_id, embedOk) ==
    LET others == {d \in BagToSet(store) : d.user_id # str(user_id)}
        filtered_docs == [d \in others |-> store[d]]
    IN  IF others = {} THEN None
        ELSE IF embedOk THEN filtered_docs
        ELSE None

\* number of sub-batches of the retry pass
NumBatches(n) == (n + batch_size - 1) \div batch_size

\* a retry pass that only takes full sub-batches
after_retry_full_only(store, documents, okBatches) ==
    LET done == (Min(okBatches * batch_size, Len(documents)) \div batch_size) * batch_size
    IN  IF done = 0 THEN store
        ELSE AddEntries(store, SeqToBag(SubSeq(documents, 1, done)))

\* the store after the first okBatches sub-batches of the retry pass
after_retry(store, documents, okBatches) ==
    LET done == Min(okBatches * batch_size, Len(documents))
    IN  IF done = 0 THEN store
        ELSE AddEntries(store, SeqToBag(SubSeq(documents, 1, done)))

RECURSIVE retry_attempts_again(_, _, _)
\* a retry pass that embeds a failed sub-batch a second time before it gives up
retry_attempts_again(n, i, failing) ==
    IF i >= n THEN <<>>
    ELSE LET b == (i \div batch_size) + 1
         IN  IF b \in failing THEN <<b, b>>
             ELSE <<b>> \o retry_attempts_again(n, i + batch_size, failing)

RECURSIVE retry_attempts(_, _, _)
\* the loop for i in range(0, n, batch_size) of the retry pass, from offset i
\* on: the sub-batches whose embedding is attempted, when it raises for the
\* sub-batches in failing.  The first exception leaves the loop (it is
\* re-raised)
retry_attempts(n, i, failing) ==
    IF i >= n THEN <<>>
    ELSE LET b == (i \div batch_size) + 1
         IN  IF b \in failing THEN <<b>>
             ELSE <<b>> \o retry_attempts(n, i + batch_size, failing)

\* the embedding attempts of a build of n documents: the one-batch call, then,
\* if it failed, the retry pass when sub-batch okBatches + 1 is the first to
\* fail
embed_attempts(n, firstOk, okBatches) ==
    IF firstOk THEN <<0>>
    ELSE <<0>> \o retry_attempts(n, 0, IF okBatches < NumBatches(n)
                                       THEN {okBatches + 1} ELSE {})

\* _batch_create_or_update: one embedding call for all documents
batch_create_or_update(store, documents, embedOk) ==
    IF embedOk THEN AddEntries(store, SeqToBag(documents)) ELSE store

\* index_user_transactions(user_id, reindex).  The environment decides
\* rebuildOk (the embedding call of the reindex step), firstOk (the one-batch
\* embedding call), okBatches (the sub-batches of the retry pass that succeed
\* before one fails), save and fp (the two writes)
IndexUserTransactions(user_id, reindex, rebuildOk, firstOk, okBatches, save, fp) ==
    LET documents == Documents(user_id)
    IN  IF documents = <<>>
        THEN \* no rows: return 0 before the store is touched
             /\ last' = Call("index_user_transactions", user_id, reindex, <<>>, 0,
                             <<>>, FALSE, 0)
             /\ UNCHANGED <<expenses, lastrowid, vector_store, index_faiss,
                            index_pkl, embedding_id, EMBEDDING_MODEL, threads>>
        ELSE LET rebuilt == IF reindex /\ vector_store # None
                            THEN rebuild_excluding(vector_store, user_id, rebuildOk)
                            ELSE vector_store
                 first == batch_create_or_update(rebuilt, documents, firstOk)
                 retried == IF firstOk THEN first
                            ELSE after_retry(rebuilt, documents, okBatches)
                 retryRaised == ~firstOk /\ okBatches < NumBatches(Len(documents))
                 raised == retryRaised \/ save # "ok"
             IN  /\ okBatches <= NumBatches(Len(documents))
                 /\ WithinCopies(retried)
                 /\ vector_store' = retried
                 /\ index_faiss' = IF retryRaised THEN index_faiss
                                   ELSE faiss_after_save(retried, save)
                 /\ index_pkl' = IF retryRaised THEN index_pkl
                                 ELSE pkl_after_save(retried, save)
                 /\ embedding_id' = IF raised THEN embedding_id
                                    ELSE fingerprint_after_write(fp)
                 /\ last' = [Call("index_user_transactions", user_id, reindex, <<>>, 0,
                                  <<>>, raised, IF raised THEN 0 ELSE Len(documents))
                                 EXCEPT !.attempts =
                                     embed_attempts(Len(documents), firstOk, okBatches)]
                     /\ UNCHANGED <<expenses, lastrowid, EMBEDDING_MODEL, threads>>

\* -------------------------------------------------- add_transaction_to_index
\* an add_transaction_to_index without its try/except: a failed embedding or
\* save raises
add_transaction_to_index_uncaught(transaction, embedOk, save, fp) ==
    LET added == AddEntries(vector_store, SetToBag({create_metadata(transaction)}))
    IN  IF ~embedOk
        THEN [ret |-> FALSE, raised |-> TRUE, store |-> vector_store,
              faiss |-> index_faiss, pkl |-> index_pkl, fingerprint |-> embedding_id]
        ELSE [ret |-> save = "ok", raised |-> save # "ok", store |-> added,
              faiss |-> faiss_after_save(added, save),
              pkl |-> pkl_after_save(added, save),
              fingerprint |-> IF save = "ok" THEN fingerprint_after_write(fp)
                              ELSE embedding_id]

\* one record is embedded, added and saved; every exception gives False
\* (embedOk: the text is formatted, embedded and added to the store)
add_transaction_to_index(transaction, embedOk, save, fp) ==
    LET added == AddEntries(vector_store, SetToBag({create_metadata(transaction)}))
    IN  IF ~embedOk
        THEN [ret |-> FALSE, raised |-> FALSE, store |-> vector_store,
              faiss |-> index_faiss, pkl |-> index_pkl, fingerprint |-> embedding_id]
        ELSE [ret |-> save = "ok", raised |-> FALSE, store |-> added,
              faiss |-> faiss_after_save(added, save),
              pkl |-> pkl_after_save(added, save),
              fingerprint |-> IF save = "ok" THEN fingerprint_after_write(fp)
                              ELSE embedding_id]

\* an add_expense that lets an exception of the index update reach its outer
\* except
add_expense_response_unguarded(expense_id, r) ==
    IF r.raised THEN [status |-> 400, id |-> 0]
    ELSE [status |-> 201, id |-> expense_id]

\* the response of add_expense once the row is committed: the index update is
\* called in a try/except of its own and its result is only logged
add_expense_response(expense_id, r) == [status |-> 201, id |-> expense_id]

\* POST /add_expense: the row is inserted and committed, then the index is
\* updated as a best-effort side effect
AddExpense(current_user_id, embedOk, save, fp) ==
    /\ lastrowid < MaxTx
    /\ LET row == [id |-> lastrowid + 1, user_id |-> current_user_id]
           r == add_transaction_to_index(row, embedOk, save, fp)
       IN  /\ expenses' = expenses \cup {row}
           /\ lastrowid' = lastrowid + 1
           /\ vector_store' = r.store
           /\ index_faiss' = r.faiss
           /\ index_pkl' = r.pkl
           /\ embedding_id' = r.fingerprint
           /\ last' = Call("add_transaction_to_index", current_user_id, FALSE, <<>>, 0,
                           <<>>, FALSE, IF r.ret THEN 1 ELSE 0)
    /\ UNCHANGED <<EMBEDDING_MODEL, threads>>

\* the user_id of a request body that has none
NoUserId == 0
\* what a client may send as user_id
PayloadUserIds == Users \cup {NoUserId}

\* a check that lets every request through
add_expense_authorized_any(current_user_id, payload_user_id) == TRUE

\* "user_id" in data and int(data["user_id"]) != int(current_user_id) is the
\* request that is refused
add_expense_authorized(current_user_id, payload_user_id) ==
    ~(payload_user_id # NoUserId /\ payload_user_id # current_user_id)

\* POST /add_expense with its check of the owner: a request that names another
\* user is answered 403 before the connection is opened; any other goes on as
\* AddExpense
AddExpenseRequest(current_user_id, payload_user_id, embedOk, save, fp) ==
    IF add_expense_authorized(current_user_id, payload_user_id)
    THEN AddExpense(current_user_id, embedOk, save, fp)
    ELSE /\ last' = Call("add_expense", current_user_id, FALSE, <<>>, 0, <<>>, FALSE, 403)
         /\ UNCHANGED <<expenses, lastrowid, vector_store, index_faiss, index_pkl,
                        embedding_id, EMBEDDING_MODEL, threads>>

\* the storage collaborator removes a row (no handler of app.py does)
DeleteExpense(id) ==
    /\ \E tx \in expenses : tx.id = id
    /\ expenses' = {tx \in expenses : tx.id # id}
    /\ last' = Call("delete", 0, FALSE, <<>>, 0, <<>>, FALSE, 0)
    /\ UNCHANGED <<lastrowid, vector_store, index_faiss, index_pkl, embedding_id,
                   EMBEDDING_MODEL, threads>>

\* ------------------------------------------------- get_relevant_transactions
\* similarity_search_with_score(query, k): the min(k, n) nearest entries,
\* nearest first; which entries are nearest is the embedding's choice
SearchResults(store, k) ==
    LET n == Min(k, Size(store))
    IN  {s \in [1..n -> BagToSet(store)] :
            \A d \in BagToSet(store) : Cardinality({i \in 1..n : s[i] = d}) <= store[d]}

\* a filter on the owner that lets every entry through
user_matches_any(doc, user_id) == TRUE

\* the filter on the owner: doc_user_id != str(user_id) skips the entry
user_matches(doc, user_id) == doc.user_id = str(user_id)

\* a filter on duplicates that forgets what it has seen
already_seen_never(tx_id, seen_ids) == FALSE

\* the filter on duplicates: tx_id in seen_ids skips the entry
already_seen(tx_id, seen_ids) == tx_id \in seen_ids

\* the transaction dictionary built from an entry's metadata
transaction_of(doc) == [id |-> int(doc.id), user_id |-> int(doc.user_id)]

\* the break of the loop, after an entry is appended
enough(filtered_results, top_k) == Len(filtered_results) >= top_k

RECURSIVE filter_results_newest_first(_, _, _, _, _, _)
\* a loop that puts each entry it keeps in front of the ones kept before
filter_results_newest_first(results, user_id, top_k, i, filtered_results, seen_ids) ==
    IF i > Len(results) THEN filtered_results
    ELSE IF ~user_matches(results[i], user_id)
         THEN filter_results_newest_first(results, user_id, top_k, i + 1,
                                          filtered_results, seen_ids)
    ELSE IF already_seen(results[i].id, seen_ids)
         THEN filter_results_newest_first(results, user_id, top_k, i + 1,
                                          filtered_results, seen_ids)
    ELSE LET appended == <<transaction_of(results[i])>> \o filtered_results
         IN  IF enough(appended, top_k) THEN appended
             ELSE filter_results_newest_first(results, user_id, top_k, i + 1, appended,
                                              seen_ids \cup {results[i].id})

RECURSIVE filter_results(_, _, _, _, _, _)
\* the loop over the search results, from result i on
filter_results(results, user_id, top_k, i, filtered_results, seen_ids) ==
    IF i > Len(results) THEN filtered_results
    ELSE IF ~user_matches(results[i], user_id)
         THEN filter_results(results, user_id, top_k, i + 1, filtered_results, seen_ids)
    ELSE IF already_seen(results[i].id, seen_ids)
         THEN filter_results(results, user_id, top_k, i + 1, filtered_results, seen_ids)
    ELSE LET appended == Append(filtered_results, transaction_of(results[i]))
         IN  IF enough(appended, top_k) THEN appended
             ELSE filter_results(results, user_id, top_k, i + 1, appended,
                                 seen_ids \cup {results[i].id})

\* what the index search does with k: faiss refuses k <= 0 (a build with an
\* older faiss answers k = 0 with no result)
SearchRaises(k, strict) == k < 0 \/ (k = 0 /\ strict)

\* a get_relevant_transactions without the check of the store: the query is
\* embedded and the search is attempted on whatever self.vector_store is
get_relevant_transactions_unguarded(store, user_id, top_k) ==
    {[raised |-> TRUE, error |-> "embed", ret |-> <<>>, calls |-> {"embed"}]}
    \cup {[raised |-> TRUE, error |-> "search", ret |-> <<>>,
           calls |-> {"embed", "search"}] :
            strict \in {s \in BOOLEAN : store = None \/ SearchRaises(top_k * 2, s)}}
    \cup {[raised |-> FALSE, error |-> "",
           ret |-> filter_results(results, user_id, top_k, 1, <<>>, {}),
           calls |-> {"embed", "search"}] :
            results \in IF store # None /\ \E s \in BOOLEAN : ~SearchRaises(top_k * 2, s)
                        THEN SearchResults(store, top_k * 2) ELSE {}}

\* the outcomes of get_relevant_transactions(user_id, query, top_k): it
\* returns ret, or raises (error names the call that failed)
get_relevant_transactions(store, user_id, top_k) ==
    IF store = None
    THEN {[raised |-> FALSE, error |-> "", ret |-> <<>>, calls |-> {}]}
    ELSE {[raised |-> TRUE, error |-> "embed", ret |-> <<>>, calls |-> {"embed"}]}
         \cup {[raised |-> TRUE, error |-> "search", ret |-> <<>>,
                calls |-> {"embed", "search"}] :
                 strict \in {s \in BOOLEAN : SearchRaises(top_k * 2, s)}}
         \cup {[raised |-> FALSE, error |-> "",
                ret |-> filter_results(results, user_id, top_k, 1, <<>>, {}),
                calls |-> {"embed", "search"}] :
                 results \in IF \E s \in BOOLEAN : ~SearchRaises(top_k * 2, s)
                             THEN SearchResults(store, top_k * 2) ELSE {}}

\* (the query is only embedded and logged: the record keeps none)
GetRelevantTransactions(user_id, top_k) ==
    /\ last' = Call("get_relevant_transactions", user_id, FALSE, <<>>, top_k,
                    <<>>, FALSE, 0)
    /\ UNCHANGED <<expenses, lastrowid, vector_store, index_faiss, index_pkl,
                   embedding_id, EMBEDDING_MODEL, threads>>

\* ------------------------------------------------------------ generate_answer
\* the retriever of the RetrievalQA chain, as_retriever(k=12, filter): FAISS
\* fetches the fetch_k nearest entries (no fetch_k is passed: the library's 20),
\* keeps those whose metadata pass the filter and returns the first
\* retriever_k of them
fetch_k == 20
retriever_k == 12

\* a retriever whose filter lets every entry through
SelectUser_all(results, user_id) == results

RECURSIVE SelectUser(_, _)
\* the entries of a result list whose metadata user_id is str(user_id)
SelectUser(results, user_id) ==
    IF results = <<>> THEN <<>>
    ELSE IF Head(results).user_id = str(user_id)
         THEN <<Head(results)>> \o SelectUser(Tail(results), user_id)
         ELSE SelectUser(Tail(results), user_id)

filtered_retriever(store, user_id) ==
    {LET kept == SelectUser(results, user_id)
     IN  SubSeq(kept, 1, Min(retriever_k, Len(kept))) :
        results \in SearchResults(store, fetch_k)}

\* the transactions in the context the generation is given by
\* generate_answer(user_id, query, matches): with a store, what the chain's own
\* retriever finds for the query; without one, the formatted matches
generation_context(store, user_id, matches) ==
    IF store # None
    THEN {{int(docs[i].id) : i \in 1..Len(docs)} : docs \in filtered_retriever(store, user_id)}
    ELSE {{matches[i].id : i \in 1..Len(matches)}}

\* a generate_answer that calls the generation also when it is given no match
generate_answer_always(store, user_id, query, matches) ==
    IF query \notin RelevantQueries
    THEN {[answer |-> OOC_MESSAGE, calls |-> {}]}
    ELSE IF store # None
    THEN {[answer |-> TROUBLE \o Truncate(e), calls |-> c] :
             e \in GenErrors, c \in {{"embed"}, {"embed", "search", "generate"}}}
         \cup {[answer |-> text, calls |-> {"embed", "search", "generate"}] :
                 text \in GenTexts}
    ELSE {[answer |-> TROUBLE \o Truncate(e), calls |-> {"generate"}] : e \in GenErrors}
         \cup {[answer |-> text, calls |-> {"generate"}] : text \in GenTexts}

\* the outcomes of generate_answer(user_id, query, matches)
generate_answer(store, user_id, query, matches) ==
    IF query \notin RelevantQueries
    THEN {[answer |-> OOC_MESSAGE, calls |-> {}]}
    ELSE IF matches = <<>>
    THEN {[answer |-> NO_MATCHES, calls |-> {}]}
    ELSE IF store # None
    THEN \* the RetrievalQA chain: its retriever searches, then the model writes;
         \* an exception of either gives the fixed apology with str(e)[:100]
         {[answer |-> TROUBLE \o Truncate(e), calls |-> c] :
             e \in GenErrors, c \in {{"embed"}, {"embed", "search", "generate"}}}
         \cup {[answer |-> text, calls |-> {"embed", "search", "generate"}] :
                 text \in GenTexts}
    ELSE \* no store: the model is invoked on the formatted matches
         {[answer |-> TROUBLE \o Truncate(e), calls |-> {"generate"}] : e \in GenErrors}
         \cup {[answer |-> text, calls |-> {"generate"}] : text \in GenTexts}

\* the matches a direct caller of generate_answer passes: none, or one record
SomeMatches == {<<>>, <<[id |-> 1, user_id |-> 1]>>}

GenerateAnswer(user_id, query, matches) ==
    /\ last' = Call("generate_answer", user_id, FALSE, query, 0, matches, FALSE, 0)
    /\ UNCHANGED <<expenses, lastrowid, vector_store, index_faiss, index_pkl,
                   embedding_id, EMBEDDING_MODEL, threads>>

\* -------------------------------------------------------------- query_with_rag
\* a pipeline that looks at the store before it asks the gate
query_with_rag_store_first(store, user_id, query, top_k) ==
    IF store = None
    THEN {[answer |-> NOT_INDEXED, matches |-> <<>>, calls |-> {}]}
    ELSE IF query \notin RelevantQueries
    THEN {[answer |-> OOC_MESSAGE, matches |-> <<>>, calls |-> {}]}
    ELSE UNION {
           IF r.raised
           THEN {[answer |-> PIPELINE_ERROR, matches |-> <<>>, calls |-> r.calls]}
           ELSE {[answer |-> g.answer, matches |-> r.ret, calls |-> r.calls \cup g.calls] :
                   g \in generate_answer(store, user_id, query, r.ret)} :
           r \in get_relevant_transactions(store, user_id, top_k)}

\* a query_with_rag without its try/except: an exception of the retrieval
\* reaches the caller and no mapping is returned
query_with_rag_uncaught(store, user_id, query, top_k) ==
    IF query \notin RelevantQueries
    THEN {[answer |-> OOC_MESSAGE, matches |-> <<>>, calls |-> {}]}
    ELSE IF store = None
    THEN {[answer |-> NOT_INDEXED, matches |-> <<>>, calls |-> {}]}
    ELSE UNION {
           IF r.raised
           THEN {}
           ELSE {[answer |-> g.answer, matches |-> r.ret, calls |-> r.calls \cup g.calls] :
                   g \in generate_answer(store, user_id, query, r.ret)} :
           r \in get_relevant_transactions(store, user_id, top_k)}

\* the outcomes of query_with_rag(user_id, query, top_k)
query_with_rag(store, user_id, query, top_k) ==
    IF query \notin RelevantQueries
    THEN {[answer |-> OOC_MESSAGE, matches |-> <<>>, calls |-> {}]}
    ELSE IF store = None
    THEN {[answer |-> NOT_INDEXED, matches |-> <<>>, calls |-> {}]}
    ELSE UNION {
           IF r.raised
           THEN {[answer |-> PIPELINE_ERROR, matches |-> <<>>, calls |-> r.calls]}
           ELSE {[answer |-> g.answer, matches |-> r.ret, calls |-> r.calls \cup g.calls] :
                   g \in generate_answer(store, user_id, query, r.ret)} :
           r \in get_relevant_transactions(store, user_id, top_k)}

QueryWithRag(user_id, query, top_k) ==
    /\ last' = Call("query_with_rag", user_id, FALSE, query, top_k, <<>>, FALSE, 0)
    /\ UNCHANGED <<expenses, lastrowid, vector_store, index_faiss, index_pkl,
                   embedding_id, EMBEDDING_MODEL, threads>>

\* ------------------------------------------------------------- get_index_stats
\* statistics that count each distinct document once
get_index_stats_distinct(store) ==
    [total_documents |-> Cardinality(BagToSet(store)),
     users |-> [u \in {d.user_id : d \in BagToSet(store)} |->
                  BagCardinality([d \in {e \in BagToSet(store) : e.user_id = u} |-> store[d]])]]

\* total_documents and users of get_index_stats()
get_index_stats(store) ==
    [total_documents |-> Size(store),
     users |-> [u \in {d.user_id : d \in BagToSet(store)} |->
                  BagCardinality([d \in {e \in BagToSet(store) : e.user_id = u} |-> store[d]])]]

\* ---------------------------------------------------------- _load_vector_store
\* a load that does not compare the fingerprint with the active model
load_vector_store_unchecked(model, readOk, cleanup, loadOk) ==
    IF index_faiss # None
    THEN [store |-> IF loadOk /\ index_pkl # None THEN index_pkl ELSE None,
          faiss |-> index_faiss, pkl |-> index_pkl, fingerprint |-> embedding_id,
          raised |-> FALSE]
    ELSE [store |-> None, faiss |-> index_faiss, pkl |-> index_pkl,
          fingerprint |-> embedding_id, raised |-> FALSE]

\* a load without the outer try/except: an index that cannot be read raises
load_vector_store_uncaught(model, readOk, cleanup, loadOk) ==
    IF index_faiss # None
    THEN LET stored_model == IF readOk /\ embedding_id # NoFile THEN embedding_id
                             ELSE NoFile
         IN  IF stored_model = NoFile \/ stored_model # model
             THEN [store |-> None,
                   faiss |-> IF cleanup = "fail_faiss" THEN index_faiss ELSE None,
                   pkl |-> IF cleanup \in {"fail_faiss", "fail_pkl"} THEN index_pkl
                           ELSE None,
                   fingerprint |-> IF cleanup = "ok" THEN NoFile ELSE embedding_id,
                   raised |-> FALSE]
             ELSE [store |-> IF loadOk /\ index_pkl # None THEN index_pkl ELSE None,
                   faiss |-> index_faiss, pkl |-> index_pkl,
                   fingerprint |-> embedding_id,
                   raised |-> ~(loadOk /\ index_pkl # None)]
    ELSE [store |-> None, faiss |-> index_faiss, pkl |-> index_pkl,
          fingerprint |-> embedding_id, raised |-> FALSE]

\* the files left by the removal of the stale index: index.faiss, index.pkl and
\* the fingerprint are removed in this order until a removal fails
CleanupOutcomes == {"ok", "fail_faiss", "fail_pkl", "fail_fingerprint"}

\* _load_vector_store: the whole body runs in a try whose except leaves the
\* store None, so no outcome raises
load_vector_store(model, readOk, cleanup, loadOk) ==
    IF index_faiss # None
    THEN LET stored_model == IF readOk /\ embedding_id # NoFile THEN embedding_id
                             ELSE NoFile
         IN  IF stored_model = NoFile \/ stored_model # model
             THEN [store |-> None,
                   faiss |-> IF cleanup = "fail_faiss" THEN index_faiss ELSE None,
                   pkl |-> IF cleanup \in {"fail_faiss", "fail_pkl"} THEN index_pkl
                           ELSE None,
                   fingerprint |-> IF cleanup = "ok" THEN NoFile ELSE embedding_id,
                   raised |-> FALSE]
             ELSE [store |-> IF loadOk /\ index_pkl # None THEN index_pkl ELSE None,
                   faiss |-> index_faiss, pkl |-> index_pkl,
                   fingerprint |-> embedding_id, raised |-> FALSE]
    ELSE [store |-> None, faiss |-> index_faiss, pkl |-> index_pkl,
          fingerprint |-> embedding_id, raised |-> FALSE]

\* the process starts again with EMBEDDING_MODEL = model:
\* rag_service = BudgetWiseRAG()
Restart(model, readOk, cleanup, loadOk) ==
    /\ LET r == load_vector_store(model, readOk, cleanup, loadOk)
       IN  /\ vector_store' = r.store
           /\ index_faiss' = r.faiss
           /\ index_pkl' = r.pkl
           /\ embedding_id' = r.fingerprint
    /\ EMBEDDING_MODEL' = model
    /\ last' = Call("load_vector_store", 0, FALSE, <<>>, 0, <<>>,
                    load_vector_store(model, readOk, cleanup, loadOk).raised, 0)
    /\ UNCHANGED <<expenses, lastrowid, threads>>

\* ------------------------------------------------------------ request handlers
\* str.strip(): the query without its leading and trailing blanks
RECURSIVE Strip(_)
Strip(q) ==
    IF q = <<>> THEN q
    ELSE IF Head(q) = " " THEN Strip(Tail(q))
    ELSE IF q[Len(q)] = " " THEN Strip(SubSeq(q, 1, Len(q) - 1))
    ELSE q

\* int(text) succeeds on an optional minus sign followed by decimal digits
IsDigits(s) == Len(s) >= 1 /\ \A i \in 1..Len(s) : \E v \in 1..10 : Digit[v] = s[i]
IsInteger(s) == IF s # <<>> /\ Head(s) = "-" THEN IsDigits(Tail(s)) ELSE IsDigits(s)
ParseInteger(s) == IF Head(s) = "-" THEN 0 - int(Tail(s)) ELSE int(s)

\* payload.get("top_k", 10)
default_top_k == 10

\* what a client may send as query and as top_k
PayloadQueries == {<<>>, <<" ", " ">>, QFood, <<" ">> \o QFood \o <<" ">>}
PayloadTopKs == {<<"2">>, <<"0">>, <<"-", "1">>, <<"a", "b", "c">>, <<>>}

\* langchain_rag_query and rag_query: the query is stripped, top_k goes
\* through int() before the try (an exception there is Flask's 500), an empty
\* query is answered 400, everything else reaches query_with_rag
langchain_rag_query(payload_query, top_k_given, payload_top_k) ==
    LET query == Strip(payload_query)
    IN  IF top_k_given /\ ~IsInteger(payload_top_k)
        THEN [status |-> 500, invoked |-> FALSE, query |-> query, top_k |-> 0]
        ELSE LET top_k == IF top_k_given THEN ParseInteger(payload_top_k)
                          ELSE default_top_k
             IN  IF query = <<>>
                 THEN [status |-> 400, invoked |-> FALSE, query |-> query, top_k |-> top_k]
                 ELSE [status |-> 200, invoked |-> TRUE, query |-> query, top_k |-> top_k]

\* the record keeps the stripped query, the top_k parsed (raised: int() raised)
\* and the status of the response
LangchainRagQuery(current_user_id, payload_query, top_k_given, payload_top_k) ==
    /\ LET r == langchain_rag_query(payload_query, top_k_given, payload_top_k)
       IN  last' = Call("langchain_rag_query", current_user_id, FALSE, r.query,
                        r.top_k, <<>>, top_k_given /\ ~IsInteger(payload_top_k), r.status)
    /\ UNCHANGED <<expenses, lastrowid, vector_store, index_faiss, index_pkl,
                   embedding_id, EMBEDDING_MODEL, threads>>

\* the methods class BudgetWiseRAG defines
Methods ==
    {"__init__", "_is_query_relevant", "create_faiss_vectorstore", "_load_vector_store",
     "_format_transaction", "_create_metadata", "index_user_transactions",
     "add_transaction_to_index", "get_relevant_transactions", "_setup_rag_pipeline",
     "generate_answer", "query_with_rag", "get_index_stats"}

\* rag_service.<name>(...): a name the class does not define raises
\* AttributeError
rag_service_call(name) == [raised |-> name \notin Methods, ret |-> FALSE]

\* langchain_clear_memory: 200 with what clear_conversation_memory returned,
\* 500 when the call raises
langchain_clear_memory(current_user_id) ==
    LET r == rag_service_call("clear_conversation_memory")
    IN  IF r.raised THEN [status |-> 500, cleared |-> FALSE]
        ELSE [status |-> 200, cleared |-> r.ret]

\* langchain_get_history: 200 with the history, 500 when the call raises
langchain_get_history(current_user_id) ==
    LET r == rag_service_call("get_conversation_history")
    IN  IF r.raised THEN [status |-> 500, message_count |-> 0]
        ELSE [status |-> 200, message_count |-> 0]

LangchainClearMemory(current_user_id) ==
    /\ last' = Call("langchain_clear_memory", current_user_id, FALSE, <<>>, 0, <<>>,
                    FALSE, langchain_clear_memory(current_user_id).status)
    /\ UNCHANGED <<expenses, lastrowid, vector_store, index_faiss, index_pkl,
                   embedding_id, EMBEDDING_MODEL, threads>>

LangchainGetHistory(current_user_id) ==
    /\ last' = Call("langchain_get_history", current_user_id, FALSE, <<>>, 0, <<>>,
                    FALSE, langchain_get_history(current_user_id).status)
    /\ UNCHANGED <<expenses, lastrowid, vector_store, index_faiss, index_pkl,
                   embedding_id, EMBEDDING_MODEL, threads>>

\* ---------------------------------------------------------- requests in flight
\* app.run serves each request on a thread of its own, and no handler and no
\* method of BudgetWiseRAG takes a lock: the steps of the requests in flight
\* interleave on the one rag_service.  A thread is idle or at a step (pc) of a
\* request of a user
\* (filtered_docs: the other users' documents the reindex step has read)
Thread(pc, user, reindex, tx) ==
    [pc |-> pc, user |-> user, reindex |-> reindex, tx |-> tx, filtered_docs |-> None]
Idle == Thread("idle", 0, FALSE, 0)

\* langchain_rag_build enters index_user_transactions: the rows are read and
\* the documents made
BuildBegin(t, user_id, reindex) ==
    /\ threads[t] = Idle
    /\ Documents(user_id) # <<>>
    /\ threads' = [threads EXCEPT ![t] = Thread("reindex", user_id, reindex, 0)]
    /\ UNCHANGED <<expenses, lastrowid, vector_store, index_faiss, index_pkl,
                   embedding_id, EMBEDDING_MODEL, last>>

\* the reindex step reads the documents of the store and keeps those of the
\* other users (without reindex, or without a store, there is nothing to do)
BuildReindex(t) ==
    /\ threads[t].pc = "reindex"
    /\ threads' = IF threads[t].reindex /\ vector_store # None
                  THEN [threads EXCEPT ![t].pc = "rebuild",
                                       ![t].filtered_docs =
                                           rebuild_excluding(vector_store, threads[t].user, TRUE)]
                  ELSE [threads EXCEPT ![t].pc = "batch"]
    /\ UNCHANGED <<expenses, lastrowid, vector_store, index_faiss, index_pkl,
                   embedding_id, EMBEDDING_MODEL, last>>

\* FAISS.from_documents has embedded the documents read and the reindex step
\* replaces self.vector_store by the store made of them (None when there was
\* none)
BuildRebuild(t) ==
    /\ threads[t].pc = "rebuild"
    /\ vector_store' = threads[t].filtered_docs
    /\ threads' = [threads EXCEPT ![t].pc = "batch", ![t].filtered_docs = None]
    /\ UNCHANGED <<expenses, lastrowid, index_faiss, index_pkl, embedding_id,
                   EMBEDDING_MODEL, last>>

\* _batch_create_or_update adds the documents to self.vector_store
BuildBatch(t) ==
    /\ threads[t].pc = "batch"
    /\ LET added == batch_create_or_update(vector_store, Documents(threads[t].user), TRUE)
       IN  /\ WithinCopies(added)
           /\ vector_store' = added
    /\ threads' = [threads EXCEPT ![t].pc = "save"]
    /\ UNCHANGED <<expenses, lastrowid, index_faiss, index_pkl, embedding_id,
                   EMBEDDING_MODEL, last>>

\* self.vector_store.save_local and the fingerprint: the store saved is the
\* one in memory now; if another request has left it None the call raises
BuildSave(t) ==
    /\ threads[t].pc = "save"
    /\ index_faiss' = IF vector_store = None THEN index_faiss ELSE vector_store
    /\ index_pkl' = IF vector_store = None THEN index_pkl ELSE vector_store
    /\ embedding_id' = IF vector_store = None THEN embedding_id ELSE EMBEDDING_MODEL
    /\ last' = [Call("index_user_transactions", threads[t].user, threads[t].reindex,
                     <<>>, 0, <<>>, vector_store = None,
                     IF vector_store = None THEN 0 ELSE Len(Documents(threads[t].user)))
                    EXCEPT !.attempts =
                        embed_attempts(Len(Documents(threads[t].user)), TRUE, 0)]
    /\ threads' = [threads EXCEPT ![t] = Idle]
    /\ UNCHANGED <<expenses, lastrowid, vector_store, EMBEDDING_MODEL>>

\* add_expense inserts and commits the row and enters add_transaction_to_index
AddBegin(t, current_user_id) ==
    /\ threads[t] = Idle
    /\ lastrowid < MaxTx
    /\ expenses' = expenses \cup {[id |-> lastrowid + 1, user_id |-> current_user_id]}
    /\ lastrowid' = lastrowid + 1
    /\ threads' = [threads EXCEPT ![t] = Thread("add", current_user_id, FALSE, lastrowid + 1)]
    /\ UNCHANGED <<vector_store, index_faiss, index_pkl, embedding_id,
                   EMBEDDING_MODEL, last>>

\* the record is embedded and added to self.vector_store
AddEmbed(t) ==
    /\ threads[t].pc = "add"
    /\ vector_store' = AddEntries(vector_store,
                          SetToBag({create_metadata([id |-> threads[t].tx,
                                                     user_id |-> threads[t].user])}))
    /\ threads' = [threads EXCEPT ![t].pc = "add_save"]
    /\ UNCHANGED <<expenses, lastrowid, index_faiss, index_pkl, embedding_id,
                   EMBEDDING_MODEL, last>>

\* save_local and the fingerprint; an exception (the store is None) gives
\* False
AddSave(t) ==
    /\ threads[t].pc = "add_save"
    /\ index_faiss' = IF vector_store = None THEN index_faiss ELSE vector_store
    /\ index_pkl' = IF vector_store = None THEN index_pkl ELSE vector_store
    /\ embedding_id' = IF vector_store = None THEN embedding_id ELSE EMBEDDING_MODEL
    /\ last' = Call("add_transaction_to_index", threads[t].user, FALSE, <<>>, 0,
                    <<>>, FALSE, IF vector_store = None THEN 0 ELSE 1)
    /\ threads' = [threads EXCEPT ![t] = Idle]
    /\ UNCHANGED <<expenses, lastrowid, vector_store, EMBEDDING_MODEL>>

\* get_relevant_transactions (pc "search") or get_index_stats (pc "stats")
\* starts to read self.vector_store
ReadBegin(t, user_id, pc) ==
    /\ threads[t] = Idle
    /\ vector_store # None
    /\ threads' = [threads EXCEPT ![t] = Thread(pc, user_id, FALSE, 0)]
    /\ UNCHANGED <<expenses, lastrowid, vector_store, index_faiss, index_pkl,
                   embedding_id, EMBEDDING_MODEL, last>>

\* the read returns
ReadEnd(t) ==
    /\ threads[t].pc \in {"search", "stats"}
    /\ last' = Call(IF threads[t].pc = "search" THEN "get_relevant_transactions"
                    ELSE "get_index_stats",
                    threads[t].user, FALSE, <<>>, 1, <<>>, FALSE, 0)
    /\ threads' = [threads EXCEPT ![t] = Idle]
    /\ UNCHANGED <<expenses, lastrowid, vector_store, index_faiss, index_pkl,
                   embedding_id, EMBEDDING_MODEL>>

\* ------------------------------------------------------------- specifications
Init ==
    /\ expenses = {}
    /\ lastrowid = 0
    /\ vector_store = None
    /\ index_faiss = None
    /\ index_pkl = None
    /\ embedding_id = NoFile
    /\ EMBEDDING_MODEL \in Models
    /\ last = Call("init", 0, FALSE, <<>>, 0, <<>>, FALSE, 0)
    /\ threads = [t \in Threads |-> Idle]

\* the retry pass has at most this many sub-batches
MaxBatches == NumBatches(MaxTx)

\* every handler under every outcome of the embedding provider and the disk
Next ==
    \/ \E u \in Users, embedOk \in BOOLEAN, save \in SaveOutcomes,
          fp \in FingerprintOutcomes : AddExpense(u, embedOk, save, fp)
    \/ \E id \in TxIds : DeleteExpense(id)
    \/ \E u \in Users, reindex \in BOOLEAN, rebuildOk \in BOOLEAN, firstOk \in BOOLEAN,
          okBatches \in 0..MaxBatches, save \in SaveOutcomes,
          fp \in FingerprintOutcomes :
          IndexUserTransactions(u, reindex, rebuildOk, firstOk, okBatches, save, fp)
    \/ \E u \in Users, k \in TopKs : GetRelevantTransactions(u, k)
    \/ \E u \in Users, q \in Queries, m \in SomeMatches : GenerateAnswer(u, q, m)
    \/ \E u \in Users, q \in Queries, k \in TopKs : QueryWithRag(u, q, k)
    \/ \E model \in Models, readOk \in BOOLEAN, cleanup \in CleanupOutcomes,
          loadOk \in BOOLEAN : Restart(model, readOk, cleanup, loadOk)

Spec == Init /\ [][Next]_vars

\* the query side: the index is built and extended with the provider and the
\* disk working, and queried under every outcome of a query
NextQuery ==
    \/ \E u \in Users : AddExpense(u, TRUE, "ok", "ok")
    \/ \E u \in Users, reindex \in BOOLEAN :
          IndexUserTransactions(u, reindex, TRUE, TRUE, MaxBatches, "ok", "ok")
    \/ \E u \in Users, k \in TopKs : GetRelevantTransactions(u, k)
    \/ \E u \in Users, q \in Queries, m \in SomeMatches : GenerateAnswer(u, q, m)
    \/ \E u \in Users, q \in Queries, k \in TopKs : QueryWithRag(u, q, k)

SpecQuery == Init /\ [][NextQuery]_vars

\* the query side with one user, NeverIndexed, who asks but neither adds an
\* expense nor calls index_user_transactions
NeverIndexed == MaxUser

NextNeverIndexed ==
    \/ \E u \in Users \ {NeverIndexed} : AddExpense(u, TRUE, "ok", "ok")
    \/ \E u \in Users \ {NeverIndexed}, reindex \in BOOLEAN :
          IndexUserTransactions(u, reindex, TRUE, TRUE, MaxBatches, "ok", "ok")
    \/ \E u \in Users, q \in Queries, k \in TopKs : QueryWithRag(u, q, k)

SpecNeverIndexed == Init /\ [][NextNeverIndexed]_vars

\* the index side: rows come and go and the index is built under every outcome
\* of the embedding provider, with the disk working
NextIndex ==
    \/ \E u \in Users, embedOk \in BOOLEAN : AddExpense(u, embedOk, "ok", "ok")
    \/ \E id \in TxIds : DeleteExpense(id)
    \/ \E u \in Users, reindex \in BOOLEAN, rebuildOk \in BOOLEAN, firstOk \in BOOLEAN,
          okBatches \in 0..MaxBatches :
          IndexUserTransactions(u, reindex, rebuildOk, firstOk, okBatches, "ok", "ok")

SpecIndex == Init /\ [][NextIndex]_vars

\* the persistence side: the index is extended by add_expense under every
\* outcome of the embedding provider and rebuilt by /chatbot/langchain/build
\* (reindex defaults to True there) with the provider working, it is saved
\* under every outcome of the disk, and the process restarts
NextPersist ==
    \/ \E u \in Users, embedOk \in BOOLEAN, save \in SaveOutcomes,
          fp \in FingerprintOutcomes : AddExpense(u, embedOk, save, fp)
    \/ \E u \in Users, save \in SaveOutcomes, fp \in FingerprintOutcomes :
          IndexUserTransactions(u, TRUE, TRUE, TRUE, MaxBatches, save, fp)
    \/ \E model \in Models, readOk \in BOOLEAN, cleanup \in CleanupOutcomes,
          loadOk \in BOOLEAN : Restart(model, readOk, cleanup, loadOk)

SpecPersist == Init /\ [][NextPersist]_vars

\* the build side on a table that holds MaxRows rows of user 1 before the
\* index is first built: the build runs under every outcome of the batch
\* embedding calls, with the disk working, and the process restarts
InitRetry ==
    /\ expenses = {[id |-> i, user_id |-> 1] : i \in 1..MaxRows}
    /\ lastrowid = MaxRows
    /\ vector_store = None
    /\ index_faiss = None
    /\ index_pkl = None
    /\ embedding_id = NoFile
    /\ EMBEDDING_MODEL \in Models
    /\ last = Call("init", 0, FALSE, <<>>, 0, <<>>, FALSE, 0)
    /\ threads = [t \in Threads |-> Idle]

NextRetry ==
    \/ \E u \in Users, reindex \in BOOLEAN, firstOk \in BOOLEAN,
          okBatches \in 0..NumBatches(MaxRows) :
          IndexUserTransactions(u, reindex, TRUE, firstOk, okBatches, "ok", "ok")
    \/ \E model \in Models : Restart(model, TRUE, "ok", TRUE)

SpecRetry == InitRetry /\ [][NextRetry]_vars

\* requests served concurrently, with the embedding provider and the disk
\* working
NextConcurrent ==
    \/ \E t \in Threads, u \in Users, reindex \in BOOLEAN : BuildBegin(t, u, reindex)
    \/ \E t \in Threads : BuildReindex(t)
    \/ \E t \in Threads : BuildRebuild(t)
    \/ \E t \in Threads : BuildBatch(t)
    \/ \E t \in Threads : BuildSave(t)
    \/ \E t \in Threads, u \in Users : AddBegin(t, u)
    \/ \E t \in Threads : AddEmbed(t)
    \/ \E t \in Threads : AddSave(t)
    \/ \E t \in Threads, u \in Users, pc \in {"search", "stats"} : ReadBegin(t, u, pc)
    \/ \E t \in Threads : ReadEnd(t)

SpecConcurrent == Init /\ [][NextConcurrent]_vars

\* the HTTP side: expenses are added and the query, clear-memory and history
\* endpoints are called with whatever a client may send
NextRequest ==
    \/ \E u \in Users : AddExpense(u, TRUE, "ok", "ok")
    \/ \E u \in Users, q \in PayloadQueries, given \in BOOLEAN, k \in PayloadTopKs :
          LangchainRagQuery(u, q, given, k)
    \/ \E u \in Users : LangchainClearMemory(u)
    \/ \E u \in Users : LangchainGetHistory(u)

SpecRequest == Init /\ [][NextRequest]_vars

\* the build side when the one-batch embedding call always fails, so that
\* every build goes through the retry pass
NextRetryPass ==
    \/ \E u \in Users, reindex \in BOOLEAN, okBatches \in 0..NumBatches(MaxRows) :
          IndexUserTransactions(u, reindex, TRUE, FALSE, okBatches, "ok", "ok")
    \/ \E model \in Models : Restart(model, TRUE, "ok", TRUE)

SpecRetryPass == InitRetry /\ [][NextRetryPass]_vars

\* the query pipeline on an index that holds one entry for each row: expenses
\* are added, users rebuild their entries, and every user asks
NextContext ==
    \/ \E u \in Users : AddExpense(u, TRUE, "ok", "ok")
    \/ \E u \in Users :
          IndexUserTransactions(u, TRUE, TRUE, TRUE, MaxBatches, "ok", "ok")
    \/ \E u \in Users, q \in Queries, k \in TopKs : QueryWithRag(u, q, k)

SpecContext == Init /\ [][NextContext]_vars

\* expense creation: every user posts expenses, naming no user, themselves or
\* another user, under every outcome of the index update
NextExpense ==
    \/ \E u \in Users, p \in PayloadUserIds, embedOk \in BOOLEAN,
          save \in SaveOutcomes, fp \in FingerprintOutcomes :
          AddExpenseRequest(u, p, embedOk, save, fp)

SpecExpense == Init /\ [][NextExpense]_vars

\* ===================================================================== claims
\* what the last call, a get_relevant_transactions, can give
RetrieveOutcomes == get_relevant_transactions(vector_store, last.user, last.top_k)
\* what the last call, a query_with_rag, can give
QueryOutcomes == query_with_rag(vector_store, last.user, last.query, last.top_k)
\* what the last call, a generate_answer, can give
GenerateOutcomes == generate_answer(vector_store, last.user, last.query, last.matches)

\* C1: in every reachable index state, whatever the search returns, no record
\* returned by get_relevant_transactions(user_id, query, top_k) has a user_id
\* other than the requested one.
C1_TenantIsolation ==
    last.op = "get_relevant_transactions" =>
        \A r \in RetrieveOutcomes :
            \A i \in 1..Len(r.ret) : r.ret[i].user_id = last.user

\* C1 witness: the index holds entries of the requesting user and of another
\* one, and the call returns a record.
C1_Witness ==
    /\ last.op = "get_relevant_transactions"
    /\ \E d \in BagToSet(vector_store) : d.user_id # str(last.user)
    /\ \E r \in RetrieveOutcomes : ~r.raised /\ Len(r.ret) >= 1

\* C2: for a query the relevance gate rejects, in every index state,
\* query_with_rag returns exactly the out-of-scope message with no matches and
\* calls neither the embedding provider, the index search nor the generation;
\* generate_answer called with such a query returns the out-of-scope message
\* without a generation call.
C2_OutOfScopeRefusal ==
    /\ (last.op = "query_with_rag" /\ last.query \in {QEmpty, QBlank, QCapital}) =>
          QueryOutcomes = {[answer |-> OOC_MESSAGE, matches |-> <<>>, calls |-> {}]}
    /\ (last.op = "generate_answer" /\ last.query \in {QEmpty, QBlank, QCapital}) =>
          GenerateOutcomes = {[answer |-> OOC_MESSAGE, calls |-> {}]}

\* C2 witness: "what is the capital of France" is asked through query_with_rag
\* by a user whose entries are in the index.
C2_Witness ==
    /\ last.op = "query_with_rag"
    /\ last.query = QCapital
    /\ last.top_k >= 1
    /\ \E d \in BagToSet(vector_store) : d.user_id = str(last.user)

\* C4: in every index state, also one that holds several entries with the same
\* transaction id, the list returned by get_relevant_transactions holds each
\* transaction id at most once.
C4_NoDuplicateIds ==
    last.op = "get_relevant_transactions" =>
        \A r \in RetrieveOutcomes :
            \A i, j \in 1..Len(r.ret) : r.ret[i].id = r.ret[j].id => i = j

\* C4 witness: the index holds two entries of one transaction of the requesting
\* user, top_k is 2 and the call returns a record.
C4_Witness ==
    /\ last.op = "get_relevant_transactions"
    /\ last.top_k >= 2
    /\ \E d \in BagToSet(vector_store) : d.user_id = str(last.user) /\ vector_store[d] >= 2
    /\ \E r \in RetrieveOutcomes : ~r.raised /\ Len(r.ret) >= 1

\* C3: for an in-domain query of a user for whom index_user_transactions has not
\* been called, whoever else has been indexed, query_with_rag returns the fixed
\* "hasn't been indexed yet" answer with no matches.  (Under SpecNeverIndexed
\* the user NeverIndexed never calls index_user_transactions.)
C3_NotIndexedPerUser ==
    (/\ last.op = "query_with_rag"
     /\ last.user = NeverIndexed
     /\ last.query = QFood
     /\ last.top_k >= 1) =>
        \A r \in QueryOutcomes : r.answer = NOT_INDEXED /\ r.matches = <<>>

\* C5: for every top_k >= 0, with the embedding provider working,
\* get_relevant_transactions returns at most top_k records, so the empty list
\* when top_k = 0.
C5_ResultSizeBound ==
    (last.op = "get_relevant_transactions" /\ last.top_k >= 0) =>
        \A r \in RetrieveOutcomes :
            r.error # "embed" => (~r.raised /\ Len(r.ret) <= last.top_k)

\* C6: for every top_k <= 0 and every non-empty index, with the embedding
\* provider working, get_relevant_transactions returns the empty list: it
\* neither returns a record nor raises.
C6_NonPositiveTopK ==
    (last.op = "get_relevant_transactions" /\ last.top_k <= 0 /\ vector_store # None) =>
        \A r \in RetrieveOutcomes :
            r.error # "embed" => (~r.raised /\ r.ret = <<>>)

\* C7: a call index_user_transactions(u, reindex=True), however the embedding
\* provider behaves, leaves the index entries of every other user as they were.
C7_ReindexKeepsOthers ==
    [][(last'.op = "index_user_transactions" /\ last'.reindex) =>
          \A v \in Users \ {last'.user} :
              EntriesOf(vector_store', v) = EntriesOf(vector_store, v)]_vars

\* C8: after a successful index_user_transactions(u, reindex=True) the index
\* entries of u are exactly one entry per row u has in storage, none when u has
\* no row.
C8_ReindexRefreshes ==
    (last.op = "index_user_transactions" /\ last.reindex /\ ~last.raised) =>
        EntriesOf(vector_store, last.user) = SeqToBag(Documents(last.user))

\* C9: after an index_user_transactions or add_transaction_to_index that saved
\* the index and reported success, a new BudgetWiseRAG with the same embedding
\* model and a readable disk loads an index with the same total_documents.
C9_PersistenceRoundTrip ==
    (/\ last.op \in {"index_user_transactions", "add_transaction_to_index"}
     /\ ~last.raised
     /\ last.ret >= 1) =>
        get_index_stats(load_vector_store(EMBEDDING_MODEL, TRUE, "ok", TRUE).store).total_documents
            = get_index_stats(vector_store).total_documents

\* C10: a load that finds index.faiss with a fingerprint file that is missing or
\* names another model than the active one ends with no in-memory index, also
\* when the removal of the old files fails part-way.
C10_IncompatibleDiscarded ==
    [][(/\ last'.op = "load_vector_store"
        /\ index_faiss # None
        /\ (embedding_id = NoFile \/ embedding_id # EMBEDDING_MODEL')) =>
          vector_store' = None]_vars

\* C10 witness: after a load the old index.faiss and a fingerprint naming
\* another model are still on disk (their removal failed) and no index is in
\* memory.
C10_Witness ==
    /\ last.op = "load_vector_store"
    /\ index_faiss # None
    /\ embedding_id # NoFile
    /\ embedding_id # EMBEDDING_MODEL
    /\ vector_store = None

\* C11: after every index_user_transactions that returns its count and every
\* add_transaction_to_index that returns True, having saved the index, the
\* fingerprint file exists and names the active embedding model.
C11_FingerprintWithEverySave ==
    (/\ last.op \in {"index_user_transactions", "add_transaction_to_index"}
     /\ ~last.raised
     /\ last.ret >= 1) =>
        (embedding_id # NoFile /\ embedding_id = EMBEDDING_MODEL)

\* the outcomes of a load from the files now on disk
LoadOutcomes ==
    {load_vector_store(model, readOk, cleanup, loadOk) :
        model \in Models, readOk \in BOOLEAN, cleanup \in CleanupOutcomes,
        loadOk \in BOOLEAN}

\* C12: whatever is on disk (no index, a valid one, one that cannot be read, a
\* fingerprint that cannot be read), _load_vector_store does not raise and
\* leaves the store either None or the saved index.
C12_LoadNeverRaises ==
    /\ \A r \in LoadOutcomes : ~r.raised /\ (r.store = None \/ r.store = index_pkl)
    /\ last.op = "load_vector_store" => ~last.raised

\* C12 witness: a load found index.faiss with the fingerprint of the active
\* model and still left no store: the index or the fingerprint could not be
\* read.
C12_Witness ==
    /\ last.op = "load_vector_store"
    /\ index_faiss # None
    /\ embedding_id = EMBEDDING_MODEL
    /\ vector_store = None

\* the row add_expense inserts for a user, read back after the commit
NewRow(u) == [id |-> lastrowid + 1, user_id |-> u]

\* C13: whatever fails (formatting, embedding, adding to the store, saving),
\* add_transaction_to_index does not raise and returns False; it returns True
\* only when the entry is in the store and the store is saved.
C13_AddNeverRaises ==
    /\ \A u \in Users, embedOk \in BOOLEAN, save \in SaveOutcomes,
          fp \in FingerprintOutcomes :
          LET r == add_transaction_to_index(NewRow(u), embedOk, save, fp)
              added == AddEntries(vector_store, SetToBag({create_metadata(NewRow(u))}))
          IN  /\ ~r.raised
              /\ (~embedOk \/ save # "ok") => ~r.ret
              /\ r.ret => (r.store = added /\ r.faiss = added /\ r.pkl = added)
    /\ (last.op = "add_transaction_to_index" /\ last.ret = 1) =>
          (vector_store # None /\ index_faiss = vector_store /\ index_pkl = vector_store)

\* C13 witness: an add_transaction_to_index failed and the call returned False.
C13_Witness ==
    /\ last.op = "add_transaction_to_index"
    /\ ~last.raised
    /\ last.ret = 0
    /\ vector_store # None

\* what the index update of add_expense can do: the outcomes of
\* add_transaction_to_index, or an exception that escapes the call
IndexUpdateOutcomes(u) ==
    {add_transaction_to_index(NewRow(u), embedOk, save, fp) :
        embedOk \in BOOLEAN, save \in SaveOutcomes, fp \in FingerprintOutcomes}
    \cup {[ret |-> FALSE, raised |-> TRUE, store |-> vector_store,
            faiss |-> index_faiss, pkl |-> index_pkl, fingerprint |-> embedding_id]}

C15_PartialRetryIsSuccess ==
    [][LET u == last'.user
           before == IF last'.reindex THEN 0 ELSE Size(EntriesOf(vector_store, u))
           gained == Size(EntriesOf(vector_store', u)) - before
       IN  (/\ last'.op = "index_user_transactions"
            /\ gained > 0
            /\ gained < Len(Documents(u))) =>
               (~last'.raised /\ index_faiss' = vector_store' /\ index_pkl' = vector_store')]_vars

\* an answer made of the fixed apology and at most MaxDetail characters of
\* error detail
IsDegraded(answer) ==
    /\ Len(answer) >= Len(TROUBLE)
    /\ Len(answer) <= Len(TROUBLE) + 100
    /\ SubSeq(answer, 1, Len(TROUBLE)) = TROUBLE

\* C16: for an in-domain query with matches, generate_answer returns what the
\* model wrote or, when the generation raises, the fixed "I had trouble
\* analyzing your transactions" text followed by at most 100 characters of the
\* error; query_with_rag then returns that answer together with the matches it
\* retrieved.
C16_GenerationFailureDegrades ==
    /\ (last.op = "generate_answer" /\ last.query = QFood /\ last.matches # <<>>) =>
          \A g \in GenerateOutcomes :
              \/ g.answer \in GenTexts /\ "generate" \in g.calls
              \/ IsDegraded(g.answer)
    /\ (last.op = "query_with_rag" /\ last.query = QFood) =>
          \A r \in QueryOutcomes :
              IsDegraded(r.answer) =>
                  /\ r.matches # <<>>
                  /\ \E x \in get_relevant_transactions(vector_store, last.user, last.top_k) :
                        ~x.raised /\ x.ret = r.matches

\* C16 witness: query_with_rag retrieved a record of the user, the generation
\* raised with a text longer than 100 characters, and the answer carries the
\* apology and 100 characters of it.
C16_Witness ==
    /\ last.op = "query_with_rag"
    /\ last.query = QFood
    /\ \E r \in QueryOutcomes :
          /\ IsDegraded(r.answer)
          /\ Len(r.answer) = Len(TROUBLE) + 100
          /\ Len(r.matches) >= 1
          /\ "generate" \in r.calls

\* C17: for an in-domain query with an empty matches list generate_answer
\* returns the fixed "couldn't find any relevant transactions" message and
\* calls no generation; so a query_with_rag whose retrieval finds nothing of
\* the user (the index holds only other users' entries) makes no generation
\* call.
C17_EmptyMatchesSkipGeneration ==
    /\ (last.op = "generate_answer" /\ last.query = QFood /\ last.matches = <<>>) =>
          GenerateOutcomes = {[answer |-> NO_MATCHES, calls |-> {}]}
    /\ (last.op = "query_with_rag" /\ last.query = QFood) =>
          \A r \in QueryOutcomes :
              /\ "generate" \in r.calls => r.matches # <<>>
              /\ (r.matches = <<>> /\ r.answer \notin {NOT_INDEXED, PIPELINE_ERROR}) =>
                    r.answer = NO_MATCHES

\* C17 witness: a user with no entry asks an in-domain query while the index
\* holds another user's entries, and is answered with the fixed message.
C17_Witness ==
    /\ last.op = "query_with_rag"
    /\ last.query = QFood
    /\ last.top_k >= 1
    /\ vector_store # None
    /\ \A d \in BagToSet(vector_store) : d.user_id # str(last.user)
    /\ \E r \in QueryOutcomes : r.answer = NO_MATCHES /\ r.matches = <<>>

\* C18: when query_with_rag hands the matches it retrieved to generate_answer
\* and the generation is invoked, the transactions in the context given to the
\* generation are exactly those of the matches list.
C18_ContextIsMatches ==
    (last.op = "query_with_rag" /\ last.query = QFood /\ vector_store # None) =>
        \A x \in get_relevant_transactions(vector_store, last.user, last.top_k) :
            (~x.raised /\ x.ret # <<>>) =>
                \A context \in generation_context(vector_store, last.user, x.ret) :
                    context = {x.ret[i].id : i \in 1..Len(x.ret)}

\* a thread is inside the mutate-then-persist sequence of
\* index_user_transactions or add_transaction_to_index
Mutating(t) == threads[t].pc \in {"reindex", "rebuild", "batch", "save", "add", "add_save"}
\* a thread is inside a search or a stats read
Reading(t) == threads[t].pc \in {"search", "stats"}

\* C19: with several requests served at a time, at most one thread is inside a
\* mutate-then-persist sequence, and none is inside a search or stats read
\* while one is.
C19_MutationsExclusive ==
    /\ Cardinality({t \in Threads : Mutating(t)}) <= 1
    /\ (\E t \in Threads : Mutating(t)) => ~(\E t \in Threads : Reading(t))

\* C20: after any sequence of add_transaction_to_index and
\* index_user_transactions calls, with reindex true or false, the index holds
\* at most one entry for each transaction id.
C20_OneEntryPerTransaction ==
    \A id \in TxIds :
        Size([d \in {e \in BagToSet(vector_store) : e.id = str(id)} |-> vector_store[d]]) <= 1

\* C21: with the user's rows unchanged, a second index_user_transactions with
\* the default reindex=false (what /chatbot/rag_build does on the same request
\* body) right after a first successful one leaves the index with the entries
\* the first one left.
C21_BuildIdempotent ==
    [][(/\ last.op = "index_user_transactions"
        /\ ~last.reindex /\ ~last.raised /\ last.ret >= 1
        /\ last'.op = "index_user_transactions"
        /\ ~last'.reindex /\ ~last'.raised
        /\ last'.user = last.user) =>
          vector_store' = vector_store]_vars

\* some keyword, currency marker or phrase occurs in the query, letter case
\* aside
Matches(q) ==
    \E e \in keywords \cup money_markers \cup phrases :
        \E i \in 1..(Len(q) - Len(e) + 1) :
            \A j \in 1..Len(e) : LowerChar(q[i + j - 1]) = e[j]

\* the queries in which some keyword, currency marker or phrase occurs
MatchingQueries == {q \in GateQueries : Matches(q)}

\* the queries for which _is_query_relevant and Matches agree
GateAgrees == {q \in GateQueries : is_query_relevant(q) <=> Matches(q)}

\* C22: _is_query_relevant(q) is true exactly when the lower-cased q contains a
\* keyword, a currency marker or a phrase; it is false for the empty and the
\* blank query; and in every index state query_with_rag refuses a query
\* exactly when none occurs in it.
C22_GateIsPure ==
    /\ GateAgrees = GateQueries
    /\ QEmpty \notin RelevantQueries
    /\ QBlank \notin RelevantQueries
    /\ last.op = "query_with_rag" =>
          ((QueryOutcomes = {[answer |-> OOC_MESSAGE, matches |-> <<>>, calls |-> {}]})
              <=> last.query \notin MatchingQueries)

\* C22 witness: "Food in August", which matches only once lower-cased, is
\* asked while the index holds entries.
C22_Witness ==
    /\ last.op = "query_with_rag"
    /\ last.query = QFood
    /\ last.query \in MatchingQueries
    /\ ~Contains(last.query, <<"f","o","o","d">>)
    /\ vector_store # None

\* C23: a query request whose query is empty or blank, or whose top_k is not an
\* integer or not positive, is answered with a client validation error (a 4xx
\* status), so without query_with_rag being invoked.
C23_InvalidRequestsRejected ==
    (/\ last.op = "langchain_rag_query"
     /\ (last.query = <<>> \/ last.raised \/ last.top_k <= 0)) =>
        (last.ret >= 400 /\ last.ret <= 499)

\* C24: a clear-memory request and a history request of a user are answered
\* with status 200.
C24_ConversationMemory ==
    last.op \in {"langchain_clear_memory", "langchain_get_history"} => last.ret = 200

\* C25: when the save at the end of index_user_transactions fails (the only
\* exception of a build whose embeddings all succeed), the call raises, the
\* index files are as they were, the in-memory index holds exactly the user's
\* documents for that user and a retrieval on it returns records of the user;
\* and every later index_user_transactions or add_transaction_to_index that
\* saves successfully leaves both index files equal to the in-memory index, so
\* the entries still in memory are durable from then on.
C25_SaveFailureSurfaced ==
    [][/\ (last'.op = "index_user_transactions" /\ last'.raised) =>
            /\ index_faiss' = index_faiss
            /\ index_pkl' = index_pkl
            /\ vector_store' # None
            /\ EntriesOf(vector_store', last'.user) = SeqToBag(Documents(last'.user))
            /\ \A k \in 1..MaxTopK :
                 \E o \in get_relevant_transactions(vector_store', last'.user, k) :
                     /\ ~o.raised
                     /\ o.ret # <<>>
                     /\ \A i \in 1..Len(o.ret) : o.ret[i].user_id = last'.user
       /\ (/\ last'.op \in {"index_user_transactions", "add_transaction_to_index"}
           /\ ~last'.raised
           /\ last'.ret >= 1) =>
            /\ index_faiss' = vector_store'
            /\ index_pkl' = vector_store'
            /\ vector_store' # None]_vars

\* a build of a user with rows has raised and left in memory entries of the
\* user that the index files do not hold
C25_Witness ==
    /\ last.op = "index_user_transactions"
    /\ last.raised
    /\ vector_store # None
    /\ EntriesOf(vector_store, last.user) = SeqToBag(Documents(last.user))
    /\ Documents(last.user) # <<>>
    /\ index_faiss # vector_store

\* number of entries a store holds for a document
CopiesOf(store, d) == IF store # None /\ d \in BagToSet(store) THEN store[d] ELSE 0

\* the sub-batches range(0, n, batch_size) cuts a list of n documents into
SubBatch(documents, b) ==
    SubSeq(documents, (b - 1) * batch_size + 1, Min(b * batch_size, Len(documents)))

\* C26: a build whose one-batch embedding attempt fails and whose retry
\* sub-batches all succeed cuts the documents into consecutive sub-batches of
\* at most 10 that cover every document once, adds each of the user's
\* documents to the index exactly once (on top of what a build without reindex
\* found there), saves the index and returns the number of the user's
\* documents.
C26_RetryPassCoversAll ==
    [][(/\ last'.op = "index_user_transactions"
        /\ ~last'.raised
        /\ last'.ret >= 1) =>
          LET u == last'.user
              documents == Documents(u)
              n == Len(documents)
          IN  /\ last'.ret = n
              /\ \A b \in 1..NumBatches(n) :
                    /\ Len(SubBatch(documents, b)) >= 1
                    /\ Len(SubBatch(documents, b)) <= batch_size
              /\ \A i \in 1..n :
                    Cardinality({b \in 1..NumBatches(n) :
                       \E j \in 1..Len(SubBatch(documents, b)) :
                          (b - 1) * batch_size + j = i
                          /\ SubBatch(documents, b)[j] = documents[i]}) = 1
              /\ \A i \in 1..n :
                    CopiesOf(vector_store', documents[i]) =
                        1 + (IF last'.reindex THEN 0
                             ELSE CopiesOf(vector_store, documents[i]))
              /\ Size(vector_store') =
                    n + (IF last'.reindex
                         THEN Size(vector_store) - Size(EntriesOf(vector_store, u))
                         ELSE Size(vector_store))
              /\ index_faiss' = vector_store'
              /\ index_pkl' = vector_store']_vars

\* a build of more documents than one sub-batch holds has gone through the
\* retry pass and returned their number
C26_Witness ==
    /\ last.op = "index_user_transactions"
    /\ ~last.raised
    /\ last.ret = Len(Documents(last.user))
    /\ last.ret > batch_size
    /\ NumBatches(last.ret) >= 2
    /\ \A i \in 1..last.ret : CopiesOf(vector_store, Documents(last.user)[i]) >= 1
    /\ index_faiss = vector_store

\* the positions of a result list get_relevant_transactions is to keep for a
\* user: the entries of the user that are the first with their transaction id
KeptPositions(results, user_id) ==
    {i \in 1..Len(results) :
        /\ results[i].user_id = str(user_id)
        /\ \A j \in 1..(i - 1) :
              results[j].user_id = str(user_id) => results[j].id # results[i].id}

\* the n-th smallest member of a set of positions
NthOf(positions, n) ==
    CHOOSE i \in positions : Cardinality({j \in positions : j < i}) = n - 1

\* the kept entries in the order of the result list, cut at top_k
NearestFirst(results, user_id, top_k) ==
    LET kept == KeptPositions(results, user_id)
    IN  [n \in 1..Min(top_k, Cardinality(kept)) |->
            [id |-> int(results[NthOf(kept, n)].id), user_id |-> user_id]]

\* C27: for top_k >= 1, whatever list the index search returns, the records
\* get_relevant_transactions returns are the user's entries of that list in the
\* order of the list (nearest first), each transaction id represented by its
\* first occurrence, cut at top_k.
C27_ClosestFirst ==
    (/\ last.op = "get_relevant_transactions"
     /\ last.top_k >= 1
     /\ vector_store # None) =>
        LET lists == SearchResults(vector_store, last.top_k * 2)
            expected == {NearestFirst(results, last.user, last.top_k) : results \in lists}
            returned == {r.ret : r \in {o \in RetrieveOutcomes : ~o.raised}}
        IN  /\ returned = expected
            /\ \A results \in lists :
                  filter_results(results, last.user, last.top_k, 1, <<>>, {}) =
                      NearestFirst(results, last.user, last.top_k)

\* the search can return a list with a transaction id of the user twice and a
\* second transaction of the user after it, and the call then returns two
\* records
C27_Witness ==
    /\ last.op = "get_relevant_transactions"
    /\ last.top_k >= 2
    /\ vector_store # None
    /\ \E results \in SearchResults(vector_store, last.top_k * 2) :
          /\ \E i, j \in 1..Len(results) :
                i < j /\ results[i] = results[j] /\ results[i].user_id = str(last.user)
          /\ Len(filter_results(results, last.user, last.top_k, 1, <<>>, {})) >= 2
          /\ \E r \in RetrieveOutcomes :
                ~r.raised /\ r.ret = NearestFirst(results, last.user, last.top_k)

\* C28: with no in-memory index, get_relevant_transactions has one outcome for
\* every user and top_k: it returns the empty list, raises nothing and calls
\* neither the embedding provider nor the index search.
C28_AbsentIndexFailsFast ==
    (last.op = "get_relevant_transactions" /\ vector_store = None) =>
        /\ RetrieveOutcomes # {}
        /\ \A r \in RetrieveOutcomes :
              ~r.raised /\ r.ret = <<>> /\ r.calls = {} /\ r.error = ""

\* the retriever is called while there are rows in the table and no index
C28_Witness ==
    /\ last.op = "get_relevant_transactions"
    /\ vector_store = None
    /\ last.top_k >= 1
    /\ RetrieveOutcomes # {}

RECURSIVE SumOf(_, _)
\* the sum of f over the set S
SumOf(f, S) ==
    IF S = {} THEN 0
    ELSE LET x == CHOOSE y \in S : TRUE IN f[x] + SumOf(f, S \ {x})

\* C29: in every reachable state total_documents of get_index_stats() is the
\* number of entries of the in-memory index (every copy counted), users holds
\* for each user with entries the number of entries whose user_id is that
\* user's and no other key, the counts of users sum to total_documents, and
\* with an absent index total_documents is 0 and users is empty.
C29_StatsAgree ==
    LET stats == get_index_stats(vector_store)
        entries == IF vector_store = None THEN {} ELSE DOMAIN vector_store
    IN  /\ stats.total_documents = SumOf(vector_store, entries)
        /\ DOMAIN stats.users = {str(u) : u \in {v \in Users : \E d \in entries : d.user_id = str(v)}}
        /\ \A u \in Users :
              LET mine == {d \in entries : d.user_id = str(u)}
              IN  mine # {} => stats.users[str(u)] = SumOf(vector_store, mine)
        /\ SumOf(stats.users, DOMAIN stats.users) = stats.total_documents
        /\ vector_store = None =>
              (stats.total_documents = 0 /\ DOMAIN stats.users = {})

\* the index holds entries of two users, one document of them twice
C29_Witness ==
    /\ vector_store # None
    /\ Cardinality(DOMAIN get_index_stats(vector_store).users) >= 2
    /\ \E d \in BagToSet(vector_store) : vector_store[d] >= 2
    /\ get_index_stats(vector_store).total_documents > Cardinality(BagToSet(vector_store))

\* C30: a call of index_user_transactions that raises, and a call of
\* add_transaction_to_index that returns False, leave the in-memory index with
\* the entries it had before the call.
C30_FailureLeavesIndexUnchanged ==
    [][(\/ last'.op = "index_user_transactions" /\ last'.raised
        \/ last'.op = "add_transaction_to_index" /\ last'.ret = 0) =>
            vector_store' = vector_store]_vars

\* C31: whenever no call is in flight, after any sequence of successful and
\* failed index_user_transactions and add_transaction_to_index calls, the
\* entries of the persisted index (index.faiss and index.pkl) are the entries
\* of the in-memory index.
C31_MemoryAndDiskAgree ==
    (\A t \in Threads : threads[t] = Idle) =>
        (index_faiss = vector_store /\ index_pkl = vector_store)

\* the store holds an entry for every row of the user
HoldsRowsOf(store, user_id) ==
    \A i \in 1..Len(Documents(user_id)) : CopiesOf(store, Documents(user_id)[i]) >= 1

\* C32: when an index_user_transactions(a, reindex=True) and an indexing call
\* of another user b (index_user_transactions or add_transaction_to_index)
\* are the last two calls to finish, both report success and no call is left
\* in flight, then however their steps interleaved the in-memory index and the
\* persisted index hold the entries of a and of b: every row of the user of a
\* build, the row added of the user of an add.
C32_NoLostUpdate ==
    [][\A t \in Threads :
        (/\ threads[t].pc \in {"save", "add_save"}
         /\ \A o \in Threads : threads'[o] = Idle
         /\ last.op = "index_user_transactions"
         /\ ~last.raised /\ last.ret >= 1
         /\ ~last'.raised /\ last'.ret >= 1
         /\ last'.user # last.user
         /\ (last.reindex \/ last'.reindex)) =>
            \A store \in {vector_store', index_pkl'} :
                /\ HoldsRowsOf(store, last.user)
                /\ IF threads[t].pc = "save"
                   THEN HoldsRowsOf(store, last'.user)
                   ELSE CopiesOf(store, create_metadata([id |-> threads[t].tx,
                                                         user_id |-> threads[t].user])) >= 1]_vars

\* C33: whenever query_with_rag of a user reaches the generation (the query is
\* in the domain, the index is present and the retrieval returned matches),
\* every document the chain's retriever puts in the generation context, and
\* every match formatted for it, has the user_id of that user, whatever
\* entries of other users the index holds.
C33_ContextIsTenantScoped ==
    (/\ last.op = "query_with_rag"
     /\ last.query \in RelevantQueries
     /\ vector_store # None) =>
        \A x \in get_relevant_transactions(vector_store, last.user, last.top_k) :
            (~x.raised /\ x.ret # <<>>) =>
                /\ \A i \in 1..Len(x.ret) : x.ret[i].user_id = last.user
                /\ \A docs \in filtered_retriever(vector_store, last.user) :
                      \A i \in 1..Len(docs) : docs[i].user_id = str(last.user)
                /\ \A context \in generation_context(vector_store, last.user, x.ret) :
                      context \subseteq {tx.id : tx \in RowsOf(last.user)}

\* a user asks an in-domain question while the index holds an entry of that
\* user and one of another user, and the generation is reached with a context
\* that holds the user's document
C33_Witness ==
    /\ last.op = "query_with_rag"
    /\ last.query = QFood
    /\ vector_store # None
    /\ \E d \in BagToSet(vector_store) : d.user_id # str(last.user)
    /\ \E x \in get_relevant_transactions(vector_store, last.user, last.top_k) :
          ~x.raised /\ x.ret # <<>>
    /\ \E docs \in filtered_retriever(vector_store, last.user) :
          Len(docs) >= 1 /\ Len(docs) < Size(vector_store)

\* C34: for every user, query, top_k and index state, query_with_rag returns a
\* mapping with a string answer and a list of matches under every outcome of
\* its steps: when the embedding provider or the index search raises in the
\* retrieval the mapping holds the pipeline-error answer and no matches, when
\* the generation raises it holds the apology of generate_answer, and no
\* outcome of a step is left without a returned mapping.  (The metadata of the
\* entries are written by _create_metadata from rows of the table, so their
\* coercion has no failing outcome of its own.)
C34_PipelineNeverRaises ==
    last.op = "query_with_rag" =>
        /\ QueryOutcomes # {}
        /\ \A o \in QueryOutcomes :
              /\ o.answer \in STRING
              /\ DOMAIN o.matches = 1..Len(o.matches)
              /\ o.answer = PIPELINE_ERROR => o.matches = <<>>
        /\ (last.query \in RelevantQueries /\ vector_store # None) =>
              \A x \in get_relevant_transactions(vector_store, last.user, last.top_k) :
                  IF x.raised
                  THEN [answer |-> PIPELINE_ERROR, matches |-> <<>>, calls |-> x.calls]
                           \in QueryOutcomes
                  ELSE \A g \in generate_answer(vector_store, last.user, last.query, x.ret) :
                          \E o \in QueryOutcomes :
                              o.answer = g.answer /\ o.matches = x.ret

\* an in-domain question is asked on a built index, and among the outcomes are
\* a retrieval that raised, answered with the pipeline error, and a
\* generation that raised, answered with the apology and the matches
C34_Witness ==
    /\ last.op = "query_with_rag"
    /\ last.query \in RelevantQueries
    /\ vector_store # None
    /\ \E x \in get_relevant_transactions(vector_store, last.user, last.top_k) : x.raised
    /\ \E o \in QueryOutcomes : o.answer = PIPELINE_ERROR /\ "embed" \in o.calls
    /\ \E o \in QueryOutcomes : IsDegraded(o.answer) /\ o.matches # <<>>

\* ceil(n / 10)
CeilTenth(n) == CHOOSE c \in 0..n : c * 10 >= n /\ (c - 1) * 10 < n

\* the patterns of failure of the sub-batches of n documents
FailurePatterns(n) == SUBSET (1..NumBatches(n))

\* C35: a call of index_user_transactions over n >= 1 documents finishes
\* (it returns or raises) after one one-batch embedding attempt followed by at
\* most ceil(n/10) sub-batch attempts, none of them made when the one-batch
\* attempt succeeded, each sub-batch attempted at most once and in order, and
\* a sub-batch that fails is the last attempt of the call; the retry loop
\* makes at most ceil(n/10) attempts under every pattern of failing
\* sub-batches.
C35_BoundedRetry ==
    (last.op = "index_user_transactions" /\ Documents(last.user) # <<>>) =>
        LET n == Len(Documents(last.user))
            a == last.attempts
        IN  /\ Len(a) >= 1
            /\ Len(a) <= 1 + CeilTenth(n)
            /\ a[1] = 0
            /\ \A i \in 2..Len(a) : a[i] = i - 1
            /\ \A i, j \in 1..Len(a) : a[i] = a[j] => i = j
            /\ (~last.raised /\ Len(a) >= 2) => Len(a) = 1 + CeilTenth(n)
            /\ \A failing \in FailurePatterns(n) :
                  LET r == retry_attempts(n, 0, failing)
                  IN  /\ Len(r) <= CeilTenth(n)
                      /\ \A i, j \in 1..Len(r) : r[i] = r[j] => i = j
                      /\ \A i \in 1..Len(r) : r[i] \in failing => i = Len(r)

\* a build of more documents than a sub-batch holds has raised in its second
\* sub-batch, after the one-batch attempt and the first sub-batch
C35_Witness ==
    /\ last.op = "index_user_transactions"
    /\ last.raised
    /\ Len(Documents(last.user)) > batch_size
    /\ last.attempts = <<0, 1, 2>>

\* C36: an add_expense request of an authenticated user that names another
\* user is answered 403 and leaves the table, the in-memory index and the
\* index files as they were; every other add_expense request writes one row
\* with the authenticated user's id, and the entry it adds to the index (at
\* most one, the one of that row) carries that id.
C36_EntriesBelongToCaller ==
    [][\A u \in Users, p \in PayloadUserIds, embedOk \in BOOLEAN,
          save \in SaveOutcomes, fp \in FingerprintOutcomes :
          AddExpenseRequest(u, p, embedOk, save, fp) =>
             IF p # NoUserId /\ p # u
             THEN /\ last'.op = "add_expense"
                  /\ last'.ret = 403
                  /\ UNCHANGED <<expenses, lastrowid, vector_store, index_faiss,
                                 index_pkl, embedding_id>>
             ELSE /\ last'.user = u
                  /\ \A tx \in expenses' \ expenses : tx.user_id = u
                  /\ Cardinality(expenses' \ expenses) = 1
                  /\ \A d \in BagToSet(vector_store') :
                        CopiesOf(vector_store', d) > CopiesOf(vector_store, d) =>
                            /\ d.user_id = str(u)
                            /\ d.id = str(lastrowid')
                  /\ Size(vector_store') <= Size(vector_store) + 1]_vars

\* a request that named another user has been refused while the index holds
\* entries
C36_Witness ==
    /\ last.op = "add_expense"
    /\ last.ret = 403
    /\ last.user \in Users
    /\ vector_store # None
    /\ expenses # {}
====
